---- MODULE Spec2Model ----
(***************************************************************************)
(* Model of cmd/mock_gen: the command that turns an interface declaration  *)
(* into testify mock source.                                               *)
(*                                                                         *)
(* Go strings are modelled as sequences of tokens.  The two characters the *)
(* program's string handling looks at, "," and " ", are always tokens of   *)
(* their own, so strings.Split(s, ", ") and strings.Fields(s) act on a     *)
(* token sequence exactly as on the characters.  Every other token is a    *)
(* run of characters that holds neither a comma nor white space (an        *)
(* identifier, a bracket), or a literal piece of a format string.          *)
(***************************************************************************)
EXTENDS Integers, Sequences, FiniteSets, TLC

VARIABLES pc, path, node, writer, sink, fileOpen, templateData, declIdx, err, exit

vars == <<pc, path, node, writer, sink, fileOpen, templateData, declIdx, err, exit>>

(***************************************************************************)
(* Bounds of the input space.                                              *)
(***************************************************************************)
MaxFields == 2
MaxMethods == 2
MaxStructFields == 2
MaxDecls == 2

(***************************************************************************)
(* strings: Join, Split, Fields, and %d.                                   *)
(***************************************************************************)
CommaSpace == <<",", " ">>

RECURSIVE Join(_, _)
Join(elems, sep) ==
    IF Len(elems) = 0 THEN <<>>
    ELSE IF Len(elems) = 1 THEN elems[1]
    ELSE elems[1] \o sep \o Join(Tail(elems), sep)

\* index of the first instance of sep in s, 0 if there is none
Index(s, sep) ==
    LET hits == {i \in 1..(Len(s) - Len(sep) + 1) : SubSeq(s, i, i + Len(sep) - 1) = sep}
    IN IF hits = {} THEN 0 ELSE CHOOSE i \in hits : \A j \in hits : i <= j

RECURSIVE Split(_, _)
Split(s, sep) ==
    LET i == Index(s, sep)
    IN IF i = 0 THEN <<s>>
       ELSE <<SubSeq(s, 1, i - 1)>> \o Split(SubSeq(s, i + Len(sep), Len(s)), sep)

IsSpace(tok) == tok \in {" ", "\t", "\n"}

RECURSIVE Fields(_)
Fields(s) ==
    IF Len(s) = 0 THEN <<>>
    ELSE IF IsSpace(s[1]) THEN Fields(Tail(s))
    ELSE LET stops == {i \in 1..Len(s) : IsSpace(s[i])}
             n == IF stops = {} THEN Len(s) + 1
                  ELSE CHOOSE i \in stops : \A j \in stops : i <= j
         IN <<SubSeq(s, 1, n - 1)>> \o Fields(SubSeq(s, n, Len(s)))

Digits == <<"0", "1", "2", "3", "4", "5", "6", "7", "8", "9">>

RECURSIVE Itoa(_)
Itoa(i) == IF i < 10 THEN <<Digits[i + 1]>> ELSE Itoa(i \div 10) \o <<Digits[(i % 10) + 1]>>

RECURSIVE Flatten(_)
Flatten(ss) == IF Len(ss) = 0 THEN <<>> ELSE ss[1] \o Flatten(Tail(ss))

(***************************************************************************)
(* go/ast nodes.                                                           *)
(***************************************************************************)
Ident(n) == [kind |-> "Ident", Name |-> n]
SelectorExpr(x, sel) == [kind |-> "SelectorExpr", X |-> x, Sel |-> sel]
StarExpr(x) == [kind |-> "StarExpr", X |-> x]
ArrayType(elt) == [kind |-> "ArrayType", Elt |-> elt]
MapType(k, v) == [kind |-> "MapType", Key |-> k, Value |-> v]
InterfaceType(methods) == [kind |-> "InterfaceType", Methods |-> methods]
FuncType(params, results) == [kind |-> "FuncType", Params |-> params, Results |-> results]
ChanType(v) == [kind |-> "ChanType", Value |-> v]
StructType(fields) == [kind |-> "StructType", Fields |-> fields]

Field(names, type) == [Names |-> names, Type |-> type]
FieldList(list) == [nil |-> FALSE, List |-> list]
NilFieldList == [nil |-> TRUE, List |-> <<>>]

(***************************************************************************)
(* Type Namer and Signature Extractor.                                     *)
(***************************************************************************)
RECURSIVE getTypeName(_), getParameters(_), getFunctionSignature(_)

getParameters(fieldList) ==
    LET fieldParams(field) ==
            IF Len(field.Names) = 0 THEN <<getTypeName(field.Type)>>
            ELSE [j \in 1..Len(field.Names) |->
                     <<field.Names[j], " ">> \o getTypeName(field.Type)]
        params == IF fieldList.nil THEN <<>>
                  ELSE Flatten([i \in 1..Len(fieldList.List) |-> fieldParams(fieldList.List[i])])
    IN Join(params, CommaSpace)

getFunctionSignature(funcType) ==
    LET params == (IF funcType.Params.nil THEN <<>> ELSE <<getParameters(funcType.Params)>>)
                  \o (IF funcType.Results.nil THEN <<>> ELSE <<getParameters(funcType.Results)>>)
    IN <<"(">> \o Join(params, CommaSpace) \o <<")">>

getTypeName(expr) ==
    CASE expr.kind = "Ident" -> <<expr.Name>>
      [] expr.kind = "SelectorExpr" -> <<expr.X.Name, ".", expr.Sel>>
      [] expr.kind = "StarExpr" -> getTypeName(expr.X)
      [] expr.kind = "ArrayType" -> <<"[]">> \o getTypeName(expr.Elt)
      [] expr.kind = "MapType" ->
            <<"map[">> \o getTypeName(expr.Key) \o <<"]">> \o getTypeName(expr.Value)
      [] expr.kind = "InterfaceType" -> <<"interface{}">>
      [] expr.kind = "FuncType" -> <<"func">> \o getFunctionSignature(expr)
      [] OTHER -> <<>>

(***************************************************************************)
(* Mock Assembler.  A Go function that can panic returns a record          *)
(* [panic, val]: val is meaningful only when panic is FALSE.               *)
(***************************************************************************)
getArgumentNames(paramList) ==
    LET params == Split(paramList, CommaSpace)
        parts(i) == Fields(params[i])
    IN [panic |-> \E i \in 1..Len(params) : Len(parts(i)) = 0,
        val |-> Join([i \in 1..Len(params) |->
                         IF Len(parts(i)) = 0 THEN <<>> ELSE parts(i)[1]], CommaSpace)]

\* getTypeNameFromString keeping only the identifier after the last "."
getTypeNameFromString_TrailingIdent(typeString) ==
    LET parts == Fields(typeString)
    IN [panic |-> Len(parts) = 0,
        val |-> IF Len(parts) = 0 THEN <<>>
                ELSE <<parts[Len(parts)][Len(parts[Len(parts)])]>>]

getTypeNameFromString(typeString) ==
    LET parts == Fields(typeString)
    IN [panic |-> Len(parts) = 0,
        val |-> IF Len(parts) = 0 THEN <<>> ELSE parts[Len(parts)]]

getReturnNames(returnList) ==
    LET returnNames == Split(returnList, CommaSpace)
        type(i) == getTypeNameFromString(returnNames[i])
    IN [panic |-> \E i \in 1..Len(returnNames) : type(i).panic,
        val |-> Join([i \in 1..Len(returnNames) |->
                         <<"args.Get(">> \o Itoa(i - 1) \o <<").(">> \o type(i).val \o <<")">>],
                     CommaSpace)]

\* the pieces of the format string of getMethodsFromInterface
FmtFunc == "func (m *"
FmtRecv == ") "
FmtParams == "("
FmtResults == ") ("
FmtCalled == ") {\n\targs := m.Called("
FmtReturn == ")\n\treturn "
FmtEnd == "\n}"

getMethodsFromInterface(interfaceType, mockName) ==
    LET list == interfaceType.Methods.List
        isFunc(i) == Len(list[i].Names) > 0 /\ list[i].Type.kind = "FuncType"
        paramList(i) == getParameters(list[i].Type.Params)
        returnList(i) == getParameters(list[i].Type.Results)
        argNames(i) == getArgumentNames(paramList(i))
        retNames(i) == getReturnNames(returnList(i))
        methodCode(i) ==
            <<FmtFunc>> \o mockName \o <<FmtRecv, list[i].Names[1], FmtParams>>
            \o paramList(i) \o <<FmtResults>> \o returnList(i) \o <<FmtCalled>>
            \o argNames(i).val \o <<FmtReturn>> \o retNames(i).val \o <<FmtEnd>>
    IN [panic |-> \E i \in 1..Len(list) :
                     \/ ~isFunc(i)
                     \/ argNames(i).panic
                     \/ retNames(i).panic,
        val |-> [i \in 1..Len(list) |->
                    [MethodCode |-> IF isFunc(i) THEN methodCode(i) ELSE <<>>]]]

\* the mocks one top-level declaration adds to templateData.Mocks
interfaceMock(name, tp) ==
    LET mockName == <<name, "Mock">>
        methods == getMethodsFromInterface(tp, mockName)
    IN [panic |-> methods.panic,
        val |-> <<[MockName |-> mockName, Methods |-> methods.val]>>]

RECURSIVE concatMocks(_)
concatMocks(rs) ==
    IF Len(rs) = 0 THEN [panic |-> FALSE, val |-> <<>>]
    ELSE LET rest == concatMocks(Tail(rs))
         IN [panic |-> rs[1].panic \/ rest.panic, val |-> rs[1].val \o rest.val]

None == [panic |-> FALSE, val |-> <<>>]

typeSpecMocks(typeSpec) ==
    CASE typeSpec.Type.kind = "InterfaceType" -> interfaceMock(typeSpec.Name, typeSpec.Type)
      [] typeSpec.Type.kind = "StructType" ->
            LET list == typeSpec.Type.Fields.List
            IN concatMocks([i \in 1..Len(list) |->
                   IF list[i].Type.kind = "InterfaceType"
                   THEN interfaceMock(list[i].Names[1], list[i].Type)
                   ELSE None])
      [] OTHER -> None

declMocks(decl) ==
    IF decl.kind = "GenDecl"
    THEN concatMocks([i \in 1..Len(decl.Specs) |->
             IF decl.Specs[i].kind = "TypeSpec" THEN typeSpecMocks(decl.Specs[i]) ELSE None])
    ELSE None

(***************************************************************************)
(* Renderer: mockTemplate executed over templateData.                      *)
(***************************************************************************)
TmplHeader == "\npackage mocks\n\nimport (\n\t\"github.com/stretchr/testify/mock\"\n)\n"
TmplType == "\ntype "
TmplStruct == " struct {\n\tmock.Mock\n}"
TmplMethodGap == "\n\n"
TmplMockEnd == "\n"

mockTemplate(data) ==
    LET methodText(m) == <<TmplMethodGap>> \o m.MethodCode
        mockText(mock) ==
            <<TmplType>> \o mock.MockName \o <<TmplStruct>>
            \o Flatten([i \in 1..Len(mock.Methods) |-> methodText(mock.Methods[i])])
            \o <<TmplMockEnd>>
    IN <<TmplHeader>> \o Flatten([i \in 1..Len(data) |-> mockText(data[i])])

(***************************************************************************)
(* The inputs: what parser.ParseFile makes of os.Args[1].                  *)
(***************************************************************************)
IntT == Ident("int")
StringT == Ident("string")
ErrorT == Ident("error")

TypeSet ==
    { IntT,
      SelectorExpr(Ident("foo"), "Bar"),
      ArrayType(StringT),
      MapType(StringT, StarExpr(IntT)),
      InterfaceType(FieldList(<<>>)),
      ChanType(IntT),
      FuncType(FieldList(<<>>), NilFieldList),
      FuncType(FieldList(<<Field(<<"x">>, IntT), Field(<<"y">>, IntT)>>), NilFieldList),
      FuncType(FieldList(<<Field(<<>>, IntT)>>), FieldList(<<Field(<<>>, StringT)>>)) }

\* the names the field at position i of a list declares: none, one or two
NamePool == <<"a", "b", "c", "d", "e", "f", "g", "h">>
NameCounts == 0..2
NamesAt(i, c) == SubSeq(NamePool, 2 * i - 1, 2 * i - 2 + c)

FieldsOf(counts, types) ==
    [i \in 1..Len(types) |-> Field(NamesAt(i, counts[i]), types[i])]

SeqsUpTo(S, n) == UNION { [1..k -> S] : k \in 0..n }

Method(name, params, results) == Field(<<name>>, FuncType(params, results))

Method1 ==
    Method("Method1",
           FieldList(<<Field(<<"arg1">>, StringT), Field(<<"arg2">>, IntT)>>),
           FieldList(<<Field(<<>>, StringT), Field(<<>>, ErrorT)>>))
Method2 ==
    Method("Method2",
           FieldList(<<Field(<<"arg1", "arg2">>, IntT)>>),
           FieldList(<<Field(<<"ret1">>, SelectorExpr(Ident("foo"), "Bar")),
                       Field(<<"err">>, ErrorT)>>))
Method3 == Method("Method3", FieldList(<<>>), FieldList(<<Field(<<>>, ErrorT)>>))
Method4 == Method("Method4", FieldList(<<Field(<<"x">>, IntT)>>), NilFieldList)
Embedded == Field(<<>>, Ident("Reader"))

MethodPool == { Method1, Method2, Method3, Method4, Embedded }

Interface(methods) == InterfaceType(FieldList(methods))

StructFieldPool ==
    { Field(<<"n">>, IntT),
      Field(<<>>, Ident("Base")),
      Field(<<"bidule">>, Interface(<<Method1, Method2>>)),
      Field(<<"chose">>, Interface(<<Method2>>)),
      Field(<<"p", "q">>, Interface(<<Method1>>)),
      Field(<<"e">>, Interface(<<>>)) }

TypeSpec(name, type) == [kind |-> "TypeSpec", Name |-> name, Type |-> type]
ValueSpec == [kind |-> "ValueSpec", Name |-> "c", Type |-> IntT]
GenDecl(specs) == [kind |-> "GenDecl", Specs |-> specs]
FuncDecl == [kind |-> "FuncDecl", Specs |-> <<>>]

DeclPool ==
    { FuncDecl,
      GenDecl(<<ValueSpec>>),
      GenDecl(<<TypeSpec("T", IntT)>>),
      GenDecl(<<TypeSpec("bidule", Interface(<<Method1, Method2>>))>>),
      GenDecl(<<TypeSpec("A", Interface(<<Method2>>)), TypeSpec("B", Interface(<<>>))>>),
      GenDecl(<<TypeSpec("s", StructType(FieldList(<<Field(<<"chose">>, Interface(<<Method1>>))>>)))>>) }

File(decls) == [Decls |-> decls]
OneInterface(methods) == File(<<GenDecl(<<TypeSpec("bidule", Interface(methods))>>)>>)

(***************************************************************************)
(* The process: main, getWriter, interfaceToMock.                          *)
(***************************************************************************)
NoWriter == [kind |-> "none", buf |-> <<>>, flushed |-> FALSE]

Init ==
    /\ pc = "main"
    /\ path = ""
    /\ node = File(<<>>)
    /\ writer = NoWriter
    /\ sink = <<>>
    /\ fileOpen = FALSE
    /\ templateData = <<>>
    /\ declIdx = 0
    /\ err = "nil"
    /\ exit = "running"

\* len(os.Args) != 2: the usage line, and main returns
mainUsage ==
    /\ pc = "main"
    /\ pc' = "exited"
    /\ exit' = "0"
    /\ UNCHANGED <<path, node, writer, sink, fileOpen, templateData, declIdx, err>>

\* flag.Parse over the one argument: it is the interface code (path stays
\* empty) or it is -result=<path>
mainArgs ==
    /\ pc = "main"
    /\ path' \in {"", "mocks.go"}
    /\ pc' = "getWriter"
    /\ UNCHANGED <<node, writer, sink, fileOpen, templateData, declIdx, err, exit>>

\* stdout is a terminal and -result is empty: errMissingResult, os.Exit(1)
getWriterMissingResult ==
    /\ pc = "getWriter"
    /\ path = ""
    /\ err' = "errMissingResult"
    /\ pc' = "exited"
    /\ exit' = "1"
    /\ UNCHANGED <<path, node, writer, sink, fileOpen, templateData, declIdx>>

\* stdout is a terminal and os.Create fails: os.Exit(1)
getWriterCreateError ==
    /\ pc = "getWriter"
    /\ path # ""
    /\ err' = "os.Create"
    /\ pc' = "exited"
    /\ exit' = "1"
    /\ UNCHANGED <<path, node, writer, sink, fileOpen, templateData, declIdx>>

\* stdout is a terminal: a buffered writer over the created file
getWriterFile ==
    /\ pc = "getWriter"
    /\ path # ""
    /\ writer' = [kind |-> "file", buf |-> <<>>, flushed |-> FALSE]
    /\ fileOpen' = TRUE
    /\ pc' = "ParseFile"
    /\ UNCHANGED <<path, node, sink, templateData, declIdx, err, exit>>

\* stdout is piped: a buffered writer over os.Stdout
getWriterStdout ==
    /\ pc = "getWriter"
    /\ writer' = [kind |-> "stdout", buf |-> <<>>, flushed |-> FALSE]
    /\ pc' = "ParseFile"
    /\ UNCHANGED <<path, node, sink, fileOpen, templateData, declIdx, err, exit>>

getWriter ==
    \/ getWriterMissingResult
    \/ getWriterCreateError
    \/ getWriterFile
    \/ getWriterStdout

\* the function getWriter returns as closer
closer ==
    /\ sink' = sink \o writer.buf
    /\ writer' = [writer EXCEPT !.buf = <<>>, !.flushed = TRUE]
    /\ fileOpen' = IF writer.kind = "file" THEN FALSE ELSE fileOpen

\* os.Args[1] is not Go source; "-result=mocks.go" never is
ParseFileError ==
    /\ pc = "ParseFile"
    /\ err' = "parser.ParseFile"
    /\ pc' = "returned"
    /\ UNCHANGED <<path, node, writer, sink, fileOpen, templateData, declIdx, exit>>

\* the rest of a successful parser.ParseFile, and templateData's creation
Parsed ==
    /\ path = ""
    /\ templateData' = <<>>
    /\ declIdx' = 1
    /\ pc' = "Decls"
    /\ UNCHANGED <<path, writer, sink, fileOpen, err, exit>>

\* os.Args[1] declares one interface of one method: every parameter list
\* against one result
ParseFileParams ==
    /\ pc = "ParseFile"
    /\ \E k \in 0..MaxFields : \E counts \in [1..k -> NameCounts], types \in [1..k -> TypeSet] :
          node' = OneInterface(<<Method("Method1", FieldList(FieldsOf(counts, types)),
                                        FieldList(<<Field(<<>>, ErrorT)>>))>>)
    /\ Parsed

\* os.Args[1] declares one interface of one method: every result list
\* against one parameter
ParseFileResults ==
    /\ pc = "ParseFile"
    /\ \E k \in 0..MaxFields : \E counts \in [1..k -> NameCounts], types \in [1..k -> TypeSet] :
          node' = OneInterface(<<Method("Method1", FieldList(<<Field(<<"x">>, IntT)>>),
                                        IF k = 0 /\ counts = <<>> THEN NilFieldList
                                        ELSE FieldList(FieldsOf(counts, types)))>>)
    /\ Parsed

\* os.Args[1] declares one interface
ParseFileInterface ==
    /\ pc = "ParseFile"
    /\ \E methods \in SeqsUpTo(MethodPool, MaxMethods) : node' = OneInterface(methods)
    /\ Parsed

\* os.Args[1] declares one struct
ParseFileStruct ==
    /\ pc = "ParseFile"
    /\ \E fields \in SeqsUpTo(StructFieldPool, MaxStructFields) :
          node' = File(<<GenDecl(<<TypeSpec("s", StructType(FieldList(fields)))>>)>>)
    /\ Parsed

\* os.Args[1] is a list of declarations
ParseFileDecls ==
    /\ pc = "ParseFile"
    /\ \E decls \in SeqsUpTo(DeclPool, MaxDecls) : node' = File(decls)
    /\ Parsed

ParseFile ==
    \/ ParseFileError
    \/ ParseFileParams
    \/ ParseFileResults
    \/ ParseFileInterface
    \/ ParseFileStruct
    \/ ParseFileDecls

\* one round of the loop over node.Decls
Decl ==
    /\ pc = "Decls"
    /\ declIdx <= Len(node.Decls)
    /\ LET mocks == declMocks(node.Decls[declIdx])
       IN /\ ~mocks.panic
          /\ templateData' = templateData \o mocks.val
    /\ declIdx' = declIdx + 1
    /\ UNCHANGED <<pc, path, node, writer, sink, fileOpen, err, exit>>

\* the round panics: main's deferred closer runs, the process dies
DeclPanic ==
    /\ pc = "Decls"
    /\ declIdx <= Len(node.Decls)
    /\ declMocks(node.Decls[declIdx]).panic
    /\ closer
    /\ pc' = "exited"
    /\ exit' = "2"
    /\ UNCHANGED <<path, node, templateData, declIdx, err>>

\* template.Parse and tmpl.Execute into the buffered writer (the constant
\* template parses; the output stays in the buffer, so no write fails)
Execute ==
    /\ pc = "Decls"
    /\ declIdx > Len(node.Decls)
    /\ writer' = [writer EXCEPT !.buf = writer.buf \o mockTemplate(templateData)]
    /\ err' = "nil"
    /\ pc' = "returned"
    /\ UNCHANGED <<path, node, sink, fileOpen, templateData, declIdx, exit>>

interfaceToMock == ParseFile \/ Decl \/ DeclPanic \/ Execute

\* interfaceToMock returned an error: os.Exit(1)
mainError ==
    /\ pc = "returned"
    /\ err # "nil"
    /\ pc' = "exited"
    /\ exit' = "1"
    /\ UNCHANGED <<path, node, writer, sink, fileOpen, templateData, declIdx, err>>

\* interfaceToMock returned nil: main returns, the deferred closer runs
mainReturn ==
    /\ pc = "returned"
    /\ err = "nil"
    /\ closer
    /\ pc' = "exited"
    /\ exit' = "0"
    /\ UNCHANGED <<path, node, templateData, declIdx, err>>

main == mainUsage \/ mainArgs \/ mainError \/ mainReturn

Next == main \/ getWriter \/ interfaceToMock

Spec == Init /\ [][Next]_vars

(***************************************************************************)
(* Reading the generated text back, and what the declarations call for.    *)
(***************************************************************************)
\* interfaceToMock parsed os.Args[1] and main has terminated
ParsedAndExited == pc = "exited" /\ writer.kind # "none" /\ err = "nil"

\* main returned normally after generating: sink holds the whole output
Generated == ParsedAndExited /\ exit = "0"

\* the tokens of text strictly between the first from and the first to
Between(text, from, to) ==
    SubSeq(text, Index(text, <<from>>) + 1, Index(text, <<to>>) - 1)

\* the blocks of the output, one per "type ... struct" of the template
OutBlocks == Tail(Split(sink, <<TmplType>>))
BlockName(block) == SubSeq(block, 1, Index(block, <<TmplStruct>>) - 1)
\* the method functions of a block, in order
BlockCodes(block) == Tail(Split(SubSeq(block, 1, Len(block) - 1), <<TmplMethodGap>>))

CodeName(code) == code[5]
CodeParams(code) == SubSeq(code, 7, Index(code, <<FmtResults>>) - 1)
CodeResults(code) == Between(code, FmtResults, FmtCalled)
CodeArgs(code) == Between(code, FmtCalled, FmtReturn)
CodeReturn(code) == Between(code, FmtReturn, FmtEnd)
HasReturn(code) == Index(code, <<FmtReturn>>) # 0

\* the interfaces a file declares, in order: every named interface type and
\* every struct field of an inline interface type
DeclaredInterfaces(file) ==
    LET ofField(field) ==
            IF field.Type.kind = "InterfaceType"
            THEN [j \in 1..Len(field.Names) |-> [name |-> field.Names[j], type |-> field.Type]]
            ELSE <<>>
        ofSpec(spec) ==
            IF spec.kind # "TypeSpec" THEN <<>>
            ELSE IF spec.Type.kind = "InterfaceType"
                 THEN <<[name |-> spec.Name, type |-> spec.Type]>>
            ELSE IF spec.Type.kind = "StructType"
                 THEN Flatten([i \in 1..Len(spec.Type.Fields.List) |->
                                  ofField(spec.Type.Fields.List[i])])
            ELSE <<>>
        ofDecl(decl) == Flatten([i \in 1..Len(decl.Specs) |-> ofSpec(decl.Specs[i])])
    IN Flatten([i \in 1..Len(file.Decls) |-> ofDecl(file.Decls[i])])

MethodsOf(iface) == iface.type.Methods.List

\* the declared parameters of a field list, one per name, or one for a
\* field without names
Parameters(fieldList) ==
    LET ofField(field) ==
            IF Len(field.Names) = 0 THEN <<[name |-> <<>>, type |-> field.Type]>>
            ELSE [j \in 1..Len(field.Names) |-> [name |-> <<field.Names[j]>>, type |-> field.Type]]
    IN Flatten([i \in 1..Len(fieldList.List) |-> ofField(fieldList.List[i])])

\* the type kinds the Type Namer has a case for
RECURSIVE Supported(_)
Supported(type) ==
    CASE type.kind \in {"Ident", "SelectorExpr", "InterfaceType"} -> TRUE
      [] type.kind \in {"StarExpr"} -> Supported(type.X)
      [] type.kind = "ArrayType" -> Supported(type.Elt)
      [] type.kind = "MapType" -> Supported(type.Key) /\ Supported(type.Value)
      [] type.kind = "FuncType" ->
            \A fl \in {type.Params, type.Results} :
                \A i \in 1..Len(fl.List) : Supported(fl.List[i].Type)
      [] OTHER -> FALSE

\* the method declarations paired with their generated functions: method j
\* of the i-th declared interface with function j of the i-th block
MethodPairs ==
    IF ~Generated \/ Len(OutBlocks) # Len(DeclaredInterfaces(node)) THEN {}
    ELSE UNION { LET methods == MethodsOf(DeclaredInterfaces(node)[i])
                     codes == BlockCodes(OutBlocks[i])
                 IN IF Len(methods) # Len(codes) THEN {}
                    ELSE { [method |-> methods[j], code |-> codes[j]] : j \in 1..Len(codes) }
               : i \in 1..Len(OutBlocks) }

PlainMethod(m) == Len(m.Names) > 0 /\ m.Type.kind = "FuncType"
AllSupported(fieldList) == \A i \in 1..Len(fieldList.List) : Supported(fieldList.List[i].Type)
HasKind(fieldList, kind) == \E i \in 1..Len(fieldList.List) : fieldList.List[i].Type.kind = kind
DeclaredMethods(file) ==
    UNION { { MethodsOf(DeclaredInterfaces(file)[i])[j] :
                j \in 1..Len(MethodsOf(DeclaredInterfaces(file)[i])) } :
            i \in 1..Len(DeclaredInterfaces(file)) }
NoStruct(file) ==
    \A i \in 1..Len(file.Decls) : \A j \in 1..Len(file.Decls[i].Specs) :
        file.Decls[i].Specs[j].Type.kind # "StructType"

\* the rendered text of a declared parameter: "name type", or "type" alone
ParameterText(param) ==
    param.name \o (IF Len(param.name) > 0 THEN <<" ">> ELSE <<>>) \o getTypeName(param.type)
ParameterTexts(fieldList) ==
    [i \in 1..Len(Parameters(fieldList)) |-> ParameterText(Parameters(fieldList)[i])]
\* the extraction expression of result i (0-based) of bare type text t
Extraction(i, t) == <<"args.Get(">> \o Itoa(i) \o <<").(">> \o t \o <<")">>

\* C1: every input that parses and declares interfaces of N methods each
\* (stated here for methods with at least one result and types the Type
\* Namer supports) is generated without error or panic, and the block of each
\* interface holds exactly its N method functions in declaration order.
C1_MethodsInOrder ==
    (/\ ParsedAndExited
     /\ NoStruct(node)
     /\ \A m \in DeclaredMethods(node) :
           /\ PlainMethod(m)
           /\ AllSupported(m.Type.Params) /\ AllSupported(m.Type.Results)
           /\ Len(m.Type.Results.List) > 0)
    => /\ exit = "0"
       /\ Len(OutBlocks) = Len(DeclaredInterfaces(node))
       /\ \A i \in 1..Len(OutBlocks) :
             [j \in 1..Len(BlockCodes(OutBlocks[i])) |-> CodeName(BlockCodes(OutBlocks[i])[j])]
             = [j \in 1..Len(MethodsOf(DeclaredInterfaces(node)[i])) |->
                   MethodsOf(DeclaredInterfaces(node)[i])[j].Names[1]]

\* C2: the return statement of a generated method holds exactly one
\* extraction expression per declared result, the i-th being
\* args.Get(i).(bare type of result i), for every supported result type.
C2_ReturnExtractions ==
    \A pair \in MethodPairs :
        AllSupported(pair.method.Type.Results)
        => LET results == Parameters(pair.method.Type.Results)
           IN CodeReturn(pair.code)
              = Join([i \in 1..Len(results) |-> Extraction(i - 1, getTypeName(results[i].type))],
                     CommaSpace)

\* C3: a method declared with zero results (and with parameters, all of
\* supported types) is generated normally, and its body is the
\* call-recording statement with no return statement.
C3_NoResultsNoReturn ==
    (/\ ParsedAndExited
     /\ \A m \in DeclaredMethods(node) :
           /\ PlainMethod(m)
           /\ AllSupported(m.Type.Params) /\ AllSupported(m.Type.Results)
           /\ Len(m.Type.Params.List) > 0
     /\ \E m \in DeclaredMethods(node) : Len(m.Type.Results.List) = 0)
    => /\ exit = "0"
       /\ \A pair \in MethodPairs :
             Len(pair.method.Type.Results.List) = 0 => ~HasReturn(pair.code)

\* C4: a method whose parameter fields have no names, of types the Type
\* Namer renders, has each type text as its rendered parameter, and forwards
\* that same type text at that position to m.Called.
C4_UnnamedParameters ==
    \A pair \in MethodPairs :
        LET params == pair.method.Type.Params
        IN (/\ AllSupported(params)
            /\ \A i \in 1..Len(params.List) : Len(params.List[i].Names) = 0)
           => LET types == [i \in 1..Len(params.List) |-> getTypeName(params.List[i].Type)]
              IN /\ CodeParams(pair.code) = Join(types, CommaSpace)
                 /\ CodeArgs(pair.code) = Join(types, CommaSpace)

\* C5: the output holds one mock block per struct field whose type is an
\* inline interface, named <FieldName>Mock, in field order (and one per named
\* interface type); other fields produce no block.
C5_BlockPerInterfaceField ==
    Generated
    => [i \in 1..Len(OutBlocks) |-> BlockName(OutBlocks[i])]
       = [i \in 1..Len(DeclaredInterfaces(node)) |-> <<DeclaredInterfaces(node)[i].name, "Mock">>]

\* C6: parameter fields that declare several names sharing one type are
\* expanded into one parameter "<name> T" per name, in order, and the
\* arguments forwarded to m.Called are those names in the same order.
C6_GroupedNames ==
    \A pair \in MethodPairs :
        LET params == pair.method.Type.Params
        IN (/\ Len(params.List) > 0
            /\ \A i \in 1..Len(params.List) : Len(params.List[i].Names) > 1)
           => /\ CodeParams(pair.code) = Join(ParameterTexts(params), CommaSpace)
              /\ CodeArgs(pair.code)
                 = Join([i \in 1..Len(Parameters(params)) |-> Parameters(params)[i].name],
                        CommaSpace)

\* parts[k] = text for some k, and k = i when required
PartAt(parts, text, i, exact) ==
    \E k \in 1..Len(parts) : parts[k] = text /\ (exact => k = i)
\* no function type (whose text holds ", ") is declared before position i
NoFuncBefore(params, i) == \A j \in 1..(i - 1) : params[j].type.kind # "FuncType"

\* C7: a qualified type pkg.Type of a parameter or result is rendered
\* unchanged as pkg.Type in the generated signature, and the extraction
\* expression of a result of that type casts to the full pkg.Type.
C7_QualifiedTypes ==
    \A pair \in MethodPairs :
        LET params == Parameters(pair.method.Type.Params)
            results == Parameters(pair.method.Type.Results)
            SelectorText(t) == <<t.X.Name, ".", t.Sel>>
            Rendered(p) == p.name \o (IF Len(p.name) > 0 THEN <<" ">> ELSE <<>>)
                           \o SelectorText(p.type)
        IN /\ \A i \in 1..Len(params) :
                 params[i].type.kind = "SelectorExpr"
                 => PartAt(Split(CodeParams(pair.code), CommaSpace), Rendered(params[i]),
                           i, NoFuncBefore(params, i))
           /\ \A i \in 1..Len(results) :
                 results[i].type.kind = "SelectorExpr"
                 => /\ PartAt(Split(CodeResults(pair.code), CommaSpace), Rendered(results[i]),
                              i, NoFuncBefore(results, i))
                    /\ \E k \in 1..Len(Split(CodeReturn(pair.code), CommaSpace)) :
                          /\ Split(CodeReturn(pair.code), CommaSpace)[k]
                             = Extraction(k - 1, SelectorText(results[i].type))
                          /\ NoFuncBefore(results, i) => k = i

\* a generated method with two or more results, one of a qualified type
C7_Witness ==
    \E pair \in MethodPairs :
        LET results == Parameters(pair.method.Type.Results)
        IN /\ Len(results) > 1
           /\ \E i \in 2..Len(results) : results[i].type.kind = "SelectorExpr"
           /\ \E i \in 1..Len(Parameters(pair.method.Type.Params)) :
                 Parameters(pair.method.Type.Params)[i].type.kind = "Ident"

\* C8: once getWriter has created the sink, it is flushed and closed before
\* the process terminates, on every exit path of main.
C8_SinkFlushedAndClosed ==
    (pc = "exited" /\ writer.kind # "none") => (writer.flushed /\ ~fileOpen)

\* C9: a parameter or result of a type kind the Type Namer does not support
\* (a channel type), named or not, is rendered with an empty type token, and
\* generation completes without an error or a panic.
C9_UnsupportedTypes ==
    (/\ ParsedAndExited
     /\ \A m \in DeclaredMethods(node) :
           /\ PlainMethod(m)
           /\ Len(m.Type.Params.List) > 0 /\ Len(m.Type.Results.List) > 0
     /\ \E m \in DeclaredMethods(node) :
           HasKind(m.Type.Params, "ChanType") \/ HasKind(m.Type.Results, "ChanType"))
    => /\ exit = "0"
       /\ \A pair \in MethodPairs :
             /\ CodeParams(pair.code)
                = Join(ParameterTexts(pair.method.Type.Params), CommaSpace)
             /\ CodeResults(pair.code)
                = Join(ParameterTexts(pair.method.Type.Results), CommaSpace)

\* C10: a function type with results, as the type of a parameter, is rendered
\* func(<params>)(<results>): the parameter rendering of its own parameter
\* list and of its own result list, each in its own parenthesised group.
C10_FunctionTypes ==
    \A pair \in MethodPairs :
        LET params == pair.method.Type.Params.List
        IN (/\ Len(params) = 1
            /\ Len(params[1].Names) = 0
            /\ params[1].Type.kind = "FuncType"
            /\ ~params[1].Type.Results.nil)
           => CodeParams(pair.code)
              = <<"func", "(">> \o getParameters(params[1].Type.Params) \o <<")", "(">>
                \o getParameters(params[1].Type.Results) \o <<")">>

====
